---- MODULE Spec2Model ----
(***************************************************************************)
(* TraceLog (jakeeqsb/tracelog): the context-local ring buffer             *)
(* (buffer.py), the per-context depth and trace id (context.py), the       *)
(* logging handler that buffers records and dumps on ERROR (handler.py)    *)
(* the @trace wrapper (instrument.py) and the dump sinks (exporter.py).    *)
(*                                                                         *)
(* The specifications share the variables:                                 *)
(*   SpecBuffer     one RingBuffer driven through its public methods by    *)
(*                  one caller;                                            *)
(*   SpecShared     one RingBuffer handed to two threads, with flash() at  *)
(*                  the granularity of its two deque calls;                *)
(*   Spec           one execution context running handler.emit, the @trace *)
(*                  wrapper and get_buffer;                                *)
(*   SpecDump       handler construction and handler.emit;                 *)
(*   SpecFormat     handler.emit for every level and depth;                *)
(*   SpecContexts   threads and context copies using ContextManager;       *)
(*   SpecAccessors  one context using two ContextManager instances;        *)
(*   SpecIsolation  threads and context copies logging through the         *)
(*                  handler;                                               *)
(*   SpecTwoHandlers one context whose records reach two handlers;         *)
(*   SpecCopy       one RingBuffer and the lists its reads returned;       *)
(*   SpecFates      handler.emit and clear() in one context;               *)
(*   SpecExport     StreamExporter.export and FileExporter.export;         *)
(*   SpecLock       two threads in handler.handle, _dump at the            *)
(*                  granularity of its prints.                             *)
(***************************************************************************)
EXTENDS Integers, Sequences, FiniteSets, TLC

VARIABLES
    heap,          \* the RingBuffer objects created so far: <<[maxlen, q]>>, a buffer's identity is its index
    buffer_var,    \* handler._buffer_var: per context, the bound RingBuffer (NoBuffer: get() raises LookupError)
    depth_var,     \* ContextManager._depth, per context
    trace_id_var,  \* ContextManager._trace_id, per context (NoTraceId: the default "")
    started,       \* the execution contexts that exist
    frames,        \* per context, the active wrapper() activations, innermost last: their locals buf and depth
    stream,        \* handler._dump_stream: the dump blocks written, oldest first
    clock,         \* the number of LogEntry objects created so far (orders them, as time.monotonic() does)
    pushed,        \* history: per buffer, the entries pushed since it was last empty
    entries_local, \* per context, a local variable bound to a list: SpecShared: the `entries` of a flash()
                   \* between its two statements; SpecCopy: the list a flash() or snapshot() returned;
                   \* SpecLock: the `entries` _dump has still to print
    files,         \* SpecExport: a FileExporter's _max_bytes and the files at _path and _path + ".bak"
    lock,          \* SpecLock: the thread that holds the handler's lock (logging.Handler.acquire), or NoHolder
    last           \* the operation that completed last, with what it returned

vars == <<heap, buffer_var, depth_var, trace_id_var, started, frames, stream,
          clock, pushed, entries_local, files, lock, last>>

----------------------------------------------------------------------------
(* Bounds of the model *)

\* LogEntry objects created in one behaviour
MaxPush == 4
\* largest capacity a directly constructed RingBuffer gets in SpecBuffer
MaxCapacity == 3

(* logging's numeric levels *)
NOTSET == 0
DEBUG == 10
INFO == 20
WARNING == 30
ERROR == 40
CRITICAL == 50

NoBuffer == 0
\* the default of _trace_id: the empty string
NoTraceId == <<>>
Idle == <<"idle">>

\* a path at which no file exists
NoFile == [exists |-> FALSE, lines |-> <<>>]

\* no FileExporter has been constructed
NoExporter == [made |-> FALSE, max_bytes |-> 0, log |-> NoFile, bak |-> NoFile]

\* the handler's lock is free
NoHolder == "free"

Contexts == {"main", "t1", "t2"}

Min(a, b) == IF a < b THEN a ELSE b

\* the last n elements of s
LastN(s, n) == SubSeq(s, Len(s) - n + 1, Len(s))

Range(s) == {s[i] : i \in 1..Len(s)}

----------------------------------------------------------------------------
(* buffer.py *)

\* the text of a Trace-DSL line: indent (in levels), prefix and the rest
Line(indent, prefix, text) == [indent |-> indent, prefix |-> prefix, text |-> text]

\* LogEntry(timestamp, dsl_line, level); by: the context that created it (history)
LogEntry(ts, dsl_line, level, by) ==
    [timestamp |-> ts, dsl_line |-> dsl_line, level |-> level, by |-> by]

\* RingBuffer(capacity): deque(maxlen=capacity), empty; by: the context that
\* constructed it (history)
RingBuffer(capacity, by) == [maxlen |-> capacity, q |-> <<>>, by |-> by]

deque_append_keeps_oldest(q, maxlen, e) ==
    IF Len(q) >= maxlen THEN q ELSE Append(q, e)

deque_append_unbounded(q, maxlen, e) == Append(q, e)

\* deque(maxlen=N).append(e): a full deque drops its leftmost element first
deque_append(q, maxlen, e) ==
    IF maxlen = 0 THEN q
    ELSE IF Len(q) = maxlen THEN Append(Tail(q), e)
    ELSE Append(q, e)

push_front(h, b, e) ==
    [h EXCEPT ![b].q = IF h[b].maxlen = 0 THEN <<>>
                       ELSE <<e>> \o SubSeq(@, 1, Min(Len(@), h[b].maxlen - 1))]

\* RingBuffer.push on buffer b of heap h: the heap after it
push(h, b, e) == [h EXCEPT ![b].q = deque_append(@, h[b].maxlen, e)]

\* list(self._buffer): a copy, oldest first
list_of(h, b) == h[b].q

\* self._buffer.clear()
clear(h, b) == [h EXCEPT ![b].q = <<>>]

\* the history of pushes of buffer b after a push of e
PushedAfterPush(b, e) == [pushed EXCEPT ![b] = Append(@, e)]

BufferFrame == UNCHANGED <<buffer_var, depth_var, trace_id_var, started, frames,
                           stream, entries_local, files, lock>>

\* buf.push(dsl_line, level) called directly on buffer b by context c
Push(c, b, level) ==
    /\ clock < MaxPush
    /\ LET e == LogEntry(clock + 1, Line(0, "", "entry"), level, c) IN
         /\ heap' = push(heap, b, e)
         /\ pushed' = PushedAfterPush(b, e)
         /\ clock' = clock + 1
         /\ last' = [op |-> "push", ctx |-> c, buf |-> b, ret |-> e]
    /\ BufferFrame

FlashKeepsBuffer(c, b) ==
    /\ heap' = heap
    /\ pushed' = pushed
    /\ last' = [op |-> "flash", ctx |-> c, buf |-> b, ret |-> list_of(heap, b)]
    /\ clock' = clock
    /\ BufferFrame

\* buf.flash() called by context c, run as one step
Flash(c, b) ==
    /\ heap' = clear(heap, b)
    /\ pushed' = [pushed EXCEPT ![b] = <<>>]
    /\ last' = [op |-> "flash", ctx |-> c, buf |-> b, ret |-> list_of(heap, b)]
    /\ clock' = clock
    /\ BufferFrame

SnapshotClears(c, b) ==
    /\ heap' = clear(heap, b)
    /\ pushed' = [pushed EXCEPT ![b] = <<>>]
    /\ last' = [op |-> "snapshot", ctx |-> c, buf |-> b, ret |-> list_of(heap, b)]
    /\ clock' = clock
    /\ BufferFrame

\* buf.snapshot()
Snapshot(c, b) ==
    /\ last' = [op |-> "snapshot", ctx |-> c, buf |-> b, ret |-> list_of(heap, b)]
    /\ UNCHANGED <<heap, pushed, clock>>
    /\ BufferFrame

\* buf.clear()
Clear(c, b) ==
    /\ heap' = clear(heap, b)
    /\ pushed' = [pushed EXCEPT ![b] = <<>>]
    /\ last' = [op |-> "clear", ctx |-> c, buf |-> b, ret |-> <<>>]
    /\ clock' = clock
    /\ BufferFrame

----------------------------------------------------------------------------
(* SpecBuffer: RingBuffer(capacity=c), then any sequence of its methods *)

InitCommon ==
    /\ buffer_var = [c \in Contexts |-> NoBuffer]
    /\ depth_var = [c \in Contexts |-> 0]
    /\ trace_id_var = [c \in Contexts |-> NoTraceId]
    /\ started = {"main"}
    /\ frames = [c \in Contexts |-> <<>>]
    /\ stream = <<>>
    /\ clock = 0
    /\ entries_local = [c \in Contexts |-> Idle]
    /\ files = NoExporter
    /\ lock = NoHolder
    /\ last = [op |-> "init", ctx |-> "main"]

InitBuffer ==
    /\ InitCommon
    /\ \E capacity \in 1..MaxCapacity : heap = <<RingBuffer(capacity, "main")>>
    /\ pushed = <<(<<>>)>>

NextBuffer ==
    \/ \E level \in {NOTSET, DEBUG} : Push("main", 1, level)
    \/ Flash("main", 1)
    \/ Snapshot("main", 1)
    \/ Clear("main", 1)

SpecBuffer == InitBuffer /\ [][NextBuffer]_vars

\* C1: flash() returns every entry held just before the call, oldest first,
\* and leaves the buffer empty: len(result) + len(after) = len(before); on an
\* empty buffer it returns []; a flash() directly after a flash() returns [].
C1_FlashReturnsAllAndEmpties ==
    [][last'.op = "flash" =>
         LET b == last'.buf
             ret == last'.ret
         IN /\ ret = heap[b].q
            /\ \A i, j \in 1..Len(ret) : i < j => ret[i].timestamp < ret[j].timestamp
            /\ heap'[b].q = <<>>
            /\ Len(ret) + Len(heap'[b].q) = Len(heap[b].q)
            /\ (heap[b].q = <<>> => ret = <<>>)
            /\ (last.op = "flash" /\ last.buf = b => ret = <<>>)]_vars

C1_Witness ==
    /\ last.op = "flash"
    /\ Len(last.ret) >= 2
    /\ heap[last.buf].q = <<>>

\* C4: a RingBuffer of capacity c >= 1 holds between 0 and c entries after
\* every push, flash, snapshot and clear.
C4_LengthWithinCapacity ==
    \A b \in DOMAIN heap :
        heap[b].maxlen >= 1 => (0 <= Len(heap[b].q) /\ Len(heap[b].q) <= heap[b].maxlen)

C4_Witness ==
    /\ last.op = "push"
    /\ Len(heap[1].q) = heap[1].maxlen
    /\ Len(pushed[1]) > heap[1].maxlen

\* C5: after n consecutive pushes on an empty buffer of capacity c the buffer
\* holds exactly the last min(n, c) pushed entries in push order: a push at
\* capacity evicts the oldest entry and no younger one.
C5_KeepsLastPushed ==
    \A b \in DOMAIN heap :
        heap[b].q = LastN(pushed[b], Min(Len(pushed[b]), heap[b].maxlen))

C5_Witness ==
    /\ heap[1].maxlen = 2
    /\ Len(pushed[1]) = 4
    /\ heap[1].q = <<pushed[1][3], pushed[1][4]>>

\* C30: snapshot() returns the held entries oldest first, the list a flash()
\* of the same buffer state returns, and leaves the buffer's contents and
\* length unchanged.
C30_SnapshotReadsWithoutMutation ==
    [][/\ last'.op = "snapshot" =>
            /\ last'.ret = LastN(pushed[last'.buf],
                                 Min(Len(pushed[last'.buf]), heap[last'.buf].maxlen))
            /\ heap'[last'.buf].q = heap[last'.buf].q
            /\ Len(heap'[last'.buf].q) = Len(last'.ret)
       /\ (last.op = "snapshot" /\ last'.op = "flash" /\ last'.buf = last.buf) =>
            last'.ret = last.ret]_vars

C30_Witness ==
    /\ last.op = "snapshot"
    /\ Len(last.ret) = 2
    /\ last.ret[1].timestamp = 2
    /\ last.ret[2].timestamp = 3
    /\ heap[last.buf].q = last.ret
    /\ Len(pushed[last.buf]) > heap[last.buf].maxlen

----------------------------------------------------------------------------
(* SpecShared: main creates one RingBuffer and hands it to threads t1 and   *)
(* t2; each thread pushes and flashes. list(deque), deque.clear() and       *)
(* deque.append are each atomic under the GIL; a thread switch can fall     *)
(* between the two statements of flash().                                   *)

Threads == {"t1", "t2"}

SharedFrame == UNCHANGED <<buffer_var, depth_var, trace_id_var, started, frames, stream,
                           files, lock>>

\* flash(), first statement: entries = list(self._buffer)
FlashList(t, b) ==
    /\ entries_local[t] = Idle
    /\ entries_local' = [entries_local EXCEPT ![t] = <<"flash", list_of(heap, b)>>]
    /\ UNCHANGED <<heap, pushed, clock, last>>
    /\ SharedFrame

\* flash(), second and third statement: self._buffer.clear(); return entries
FlashClear(t, b) ==
    /\ entries_local[t] # Idle
    /\ heap' = clear(heap, b)
    /\ pushed' = [pushed EXCEPT ![b] = <<>>]
    /\ last' = [op |-> "flash", ctx |-> t, buf |-> b, ret |-> entries_local[t][2]]
    /\ entries_local' = [entries_local EXCEPT ![t] = Idle]
    /\ clock' = clock
    /\ SharedFrame

\* buf.push(...) by a thread that is not inside flash()
SharedPush(t, b) ==
    /\ entries_local[t] = Idle
    /\ Push(t, b, NOTSET)

InitShared ==
    /\ InitCommon
    /\ heap = <<RingBuffer(MaxPush, "main")>>
    /\ pushed = <<(<<>>)>>

NextShared ==
    \E t \in Threads :
        \/ SharedPush(t, 1)
        \/ FlashList(t, 1)
        \/ FlashClear(t, 1)

SpecShared == InitShared /\ [][NextShared]_vars

\* C2: flash() is indivisible with respect to the other operations on the
\* same buffer: an entry another thread pushes while flash() runs is in the
\* list flash() returns or in the buffer after flash() returns, never in
\* neither (no state lies between the snapshot and the emptying).
C2_FlashIndivisible ==
    [][\A t \in Threads :
         (entries_local[t] # Idle /\ entries_local'[t] = Idle) =>
             \A e \in Range(heap[1].q) :
                 e \in Range(last'.ret) \/ e \in Range(heap'[1].q)]_vars

----------------------------------------------------------------------------
(* context.py: ContextManager, a facade over two ContextVars *)

\* depth at which the model stops increasing (increase_depth itself is unconditional)
MaxDepth == 2
\* how many different values uuid4() takes in the model
MaxTraceId == 3
\* the longest run of increase_depth calls undone by as many decrease_depth calls
MaxRoundTrip == 2

\* the ContextManager instances the package creates: TraceLogHandler._ctx
\* (handler.py:120) and instrument._ctx (instrument.py:41)
Instances == {"handler._ctx", "instrument._ctx"}

HexDigits == <<"0", "1", "2", "3", "4", "5", "6", "7", "8", "9",
               "a", "b", "c", "d", "e", "f">>

\* '%08x' of the leading 32 bits of a UUID, as a sequence of characters
Hex8(n) == [i \in 1..8 |-> HexDigits[((n \div (16 ^ (8 - i))) % 16) + 1]]

\* str(uuid.uuid4()) of the n-th UUID the model draws: 32 hexadecimal digits in
\* groups of 8-4-4-4-12 joined by "-" (36 characters); the leading group
\* differs from UUID to UUID
uuid4_str(n) ==
    Hex8(n * 286331153) \o <<"-">> \o <<"9", "e", "0", "7">> \o <<"-">>
      \o <<"4", "c", "2", "1">> \o <<"-">> \o <<"a", "5", "5", "0">> \o <<"-">>
      \o <<"e", "c", "a", "1", "8", "6", "2", "7", "1", "d", "b", "d">>

new_trace_id_nine_chars(n) == SubSeq(uuid4_str(n), 1, 9)

\* str(uuid.uuid4())[:8]
new_trace_id(n) == SubSeq(uuid4_str(n), 1, 8)

\* the ids a new uuid4 can give: uuid4 is taken as collision-free, so an id any
\* context already holds is not drawn again
TraceIds == {new_trace_id(n) : n \in 1..MaxTraceId} \ {trace_id_var[c] : c \in Contexts}

get_depth_own_counter(dv, inst, c) == IF inst = "handler._ctx" THEN 0 ELSE dv[c]

\* self._depth.get(): _depth is a class attribute, so every instance reads the
\* one ContextVar, whose value is per context
get_depth(dv, inst, c) == dv[c]

increase_depth_all_contexts(dv, c) == [x \in Contexts |-> dv[x] + 1]

\* self._depth.set(self._depth.get() + 1)
increase_depth(dv, c) == [dv EXCEPT ![c] = @ + 1]

decrease_depth_unclamped(dv, c) == [dv EXCEPT ![c] = @ - 1]

decrease_depth_clamped_at_one(dv, c) == IF dv[c] > 1 THEN [dv EXCEPT ![c] = @ - 1] ELSE dv

\* current = self._depth.get(); if current > 0: self._depth.set(current - 1)
decrease_depth(dv, c) == IF dv[c] > 0 THEN [dv EXCEPT ![c] = @ - 1] ELSE dv

RECURSIVE increase_depth_times(_, _, _)
\* for _ in range(k): ctx.increase_depth()
increase_depth_times(dv, c, k) ==
    IF k = 0 THEN dv ELSE increase_depth_times(increase_depth(dv, c), c, k - 1)

RECURSIVE decrease_depth_times(_, _, _)
\* for _ in range(k): ctx.decrease_depth()
decrease_depth_times(dv, c, k) ==
    IF k = 0 THEN dv ELSE decrease_depth_times(decrease_depth(dv, c), c, k - 1)

ContextFrame == UNCHANGED <<heap, buffer_var, started, frames, stream, clock,
                            pushed, entries_local, files, lock>>

\* inst.get_depth() called by application code of context c
GetDepth(inst, c) ==
    /\ last' = [op |-> "get_depth", ctx |-> c, inst |-> inst,
                ret |-> get_depth(depth_var, inst, c)]
    /\ UNCHANGED <<depth_var, trace_id_var>>
    /\ ContextFrame

\* inst.increase_depth() called by application code outside any wrapped call
IncreaseDepth(inst, c) ==
    /\ frames[c] = <<>>
    /\ depth_var[c] < MaxDepth
    /\ depth_var' = increase_depth(depth_var, c)
    /\ last' = [op |-> "increase_depth", ctx |-> c, inst |-> inst,
                ret |-> depth_var'[c]]
    /\ UNCHANGED trace_id_var
    /\ ContextFrame

\* inst.decrease_depth() called by application code outside any wrapped call;
\* the method has no raise and returns None
DecreaseDepth(inst, c) ==
    /\ frames[c] = <<>>
    /\ depth_var' = decrease_depth(depth_var, c)
    /\ last' = [op |-> "decrease_depth", ctx |-> c, inst |-> inst,
                ret |-> depth_var'[c]]
    /\ UNCHANGED trace_id_var
    /\ ContextFrame

\* k calls of increase_depth and then k calls of decrease_depth by application
\* code of context c; no other context can touch c's depth in between
DepthRoundTrip(inst, c, k) ==
    /\ frames[c] = <<>>
    /\ depth_var' = decrease_depth_times(increase_depth_times(depth_var, c, k), c, k)
    /\ last' = [op |-> "depth_round_trip", ctx |-> c, inst |-> inst, k |-> k,
                before |-> depth_var[c], ret |-> depth_var'[c]]
    /\ UNCHANGED trace_id_var
    /\ ContextFrame

\* inst.get_trace_id(): the stored id, or a new str(uuid.uuid4())[:8] that is stored
GetTraceId(inst, c) ==
    /\ IF trace_id_var[c] # NoTraceId
       THEN /\ trace_id_var' = trace_id_var
            /\ last' = [op |-> "get_trace_id", ctx |-> c, inst |-> inst,
                        ret |-> trace_id_var[c], generated |-> FALSE]
       ELSE \E tid \in TraceIds :
              /\ trace_id_var' = [trace_id_var EXCEPT ![c] = tid]
              /\ last' = [op |-> "get_trace_id", ctx |-> c, inst |-> inst,
                          ret |-> tid, generated |-> TRUE]
    /\ UNCHANGED depth_var
    /\ ContextFrame

----------------------------------------------------------------------------
(* handler.py: get_buffer *)

\* get_buffer's default capacity (200 in the source, scaled down)
DefaultCapacity == 3
\* the capacity the handler was constructed with (50 in the tests, scaled down)
HandlerCapacity == 2

get_buffer_rebinds(c, capacity) ==
    IF buffer_var[c] # NoBuffer /\ heap[buffer_var[c]].maxlen = capacity
    THEN [buf |-> buffer_var[c], heap |-> heap, var |-> buffer_var, pushed |-> pushed]
    ELSE [buf |-> Len(heap) + 1,
          heap |-> Append(heap, RingBuffer(capacity, c)),
          var |-> [buffer_var EXCEPT ![c] = Len(heap) + 1],
          pushed |-> Append(pushed, <<>>)]

\* get_buffer(capacity) in context c: the buffer returned, and the heap and the
\* binding after the call
get_buffer(c, capacity) ==
    IF buffer_var[c] # NoBuffer
    THEN [buf |-> buffer_var[c], heap |-> heap, var |-> buffer_var, pushed |-> pushed]
    ELSE [buf |-> Len(heap) + 1,
          heap |-> Append(heap, RingBuffer(capacity, c)),
          var |-> [buffer_var EXCEPT ![c] = Len(heap) + 1],
          pushed |-> Append(pushed, <<>>)]

\* get_buffer(capacity) called by application code of context c
GetBuffer(c, capacity) ==
    /\ LET g == get_buffer(c, capacity) IN
         /\ heap' = g.heap
         /\ buffer_var' = g.var
         /\ pushed' = g.pushed
         /\ last' = [op |-> "get_buffer", ctx |-> c, buf |-> g.buf, ret |-> g.buf,
                     capacity |-> capacity]
    /\ UNCHANGED <<depth_var, trace_id_var, started, frames, stream, clock, entries_local,
                   files, lock>>

----------------------------------------------------------------------------
(* handler.py: TraceLogHandler *)

\* record.levelname
LevelName(levelno) ==
    CASE levelno = DEBUG -> "DEBUG"
      [] levelno = INFO -> "INFO"
      [] levelno = WARNING -> "WARNING"
      [] levelno = ERROR -> "ERROR"
      [] levelno = CRITICAL -> "CRITICAL"
      [] OTHER -> "NOTSET"

_to_dsl_labels_warning(depth, levelno, exc) ==
    LET prefix == IF levelno >= ERROR THEN "!!"
                  ELSE IF levelno > WARNING THEN ".."
                  ELSE ".. [" \o LevelName(levelno) \o "]"
        msg == "msg"
    IN IF exc THEN Line(depth, prefix, "Exc: " \o msg) ELSE Line(depth, prefix, msg)

\* TraceLogHandler._to_dsl at depth `depth` for a record of level `levelno`
\* that carries (exc) or does not carry an exception
_to_dsl(depth, levelno, exc) ==
    LET prefix == IF levelno >= ERROR THEN "!!"
                  ELSE IF levelno >= WARNING THEN ".."
                  ELSE ".. [" \o LevelName(levelno) \o "]"
        msg == "msg"
    IN IF exc THEN Line(depth, prefix, "Exc: " \o msg) ELSE Line(depth, prefix, msg)

RECURSIVE Indent(_)
\* indent = "  " * depth
Indent(depth) == IF depth = 0 THEN "" ELSE "  " \o Indent(depth - 1)

\* the string of a line: f"{indent}{prefix} {msg}", with the type name and ": "
\* already in front of the message when there is one
dsl_string(line) == Indent(line.indent) \o line.prefix \o " " \o line.text

\* the levels of the records the application logs
RecordLevels == {INFO, WARNING, ERROR}

\* the five levels of logging
AllLevels == {DEBUG, INFO, WARNING, ERROR, CRITICAL}

emit_never_dumps(levelno) == FALSE

emit_dumps_from_warning(levelno) == levelno >= WARNING

\* emit: if record.levelno >= logging.ERROR
emit_dumps(levelno) == levelno >= ERROR

_dump_snapshots(h, b, streamOk) == h

_dump_requeues_on_failure(h, b, streamOk) == IF streamOk THEN clear(h, b) ELSE h

\* TraceLogHandler._dump's first statement, entries = buf.flash(): the heap
\* afterwards. The prints come later; nothing puts the entries back when one
\* of them raises.
_dump_heap_after(h, b, streamOk) == clear(h, b)

\* TraceLogHandler._dump's prints: the block the stream holds afterwards. A block
\* is kept as the entries whose dsl_line it prints; a stream that refuses the
\* write (closed) raises at the first print and holds nothing new.
_dump_stream_after(entries, streamOk) ==
    IF streamOk THEN Append(stream, entries) ELSE stream

emit_propagates(failure) == IF failure # "none" THEN "raises" ELSE "ok"

\* emit's try / except Exception: self.handleError(record). failure names the
\* statement of the try block that raised: "format" (_to_dsl), "dump" (_dump),
\* or "none"
emit_outcome(failure) == IF failure # "none" THEN "handleError" ELSE "ok"

emit_pushes_unrendered(before, after) == after

\* emit's try block when _to_dsl(record, depth) raises: buf.push is the
\* statement after it and is not reached, so the heap is the one get_buffer()
\* left (before), not the one a push would leave (after)
emit_heap_when_render_fails(before, after) == before

\* handler.emit(record) of one TraceLogHandler instance in context c.
\* renders: record.getMessage() succeeds; streamOk: the dump stream accepts
\* the write. An exception inside the try block ends in
\* self.handleError(record).
HandlerEmit(handler, c, levelno, exc, renders, streamOk) ==
    /\ clock < MaxPush
    /\ LET g == get_buffer(c, HandlerCapacity)
           e == LogEntry(clock + 1, _to_dsl(get_depth(depth_var, "handler._ctx", c), levelno, exc), levelno, c)
           h1 == push(g.heap, g.buf, e)
           entries == list_of(h1, g.buf)
           h2 == _dump_heap_after(h1, g.buf, streamOk)
       IN /\ buffer_var' = g.var
          /\ IF ~renders
             THEN /\ heap' = emit_heap_when_render_fails(g.heap, h1)
                  /\ pushed' = g.pushed
                  /\ clock' = clock
                  /\ stream' = stream
                  /\ last' = [op |-> "emit", handler |-> handler, renders |-> renders,
                              ctx |-> c, buf |-> g.buf, levelno |-> levelno, exc |-> exc,
                              failure |-> "format", outcome |-> emit_outcome("format"),
                              flashed |-> FALSE, dumped |-> FALSE]
             ELSE IF emit_dumps(levelno)
             THEN /\ heap' = h2
                  /\ pushed' = [g.pushed EXCEPT ![g.buf] =
                                  IF h2[g.buf].q = <<>> THEN <<>> ELSE Append(@, e)]
                  /\ clock' = clock + 1
                  /\ stream' = _dump_stream_after(entries, streamOk)
                  /\ LET failure == IF streamOk THEN "none" ELSE "dump" IN
                       last' = [op |-> "emit", handler |-> handler, renders |-> renders,
                                ctx |-> c, buf |-> g.buf, levelno |-> levelno, exc |-> exc,
                                failure |-> failure, outcome |-> emit_outcome(failure),
                                flashed |-> TRUE, dumped |-> streamOk, ret |-> e]
             ELSE /\ heap' = h1
                  /\ pushed' = [g.pushed EXCEPT ![g.buf] = Append(@, e)]
                  /\ clock' = clock + 1
                  /\ stream' = stream
                  /\ last' = [op |-> "emit", handler |-> handler, renders |-> renders,
                              ctx |-> c, buf |-> g.buf, levelno |-> levelno, exc |-> exc,
                              failure |-> "none", outcome |-> emit_outcome("none"),
                              flashed |-> FALSE, dumped |-> FALSE, ret |-> e]
    /\ UNCHANGED <<depth_var, trace_id_var, started, frames, entries_local, files, lock>>

\* logger.log(levelno, ...) in context c on a logger with one TraceLogHandler
\* attached: the record goes to that handler's emit
Emit(c, levelno, exc, renders, streamOk) ==
    HandlerEmit("h1", c, levelno, exc, renders, streamOk)

\* the keyword arguments applications pass to TraceLogHandler(...): the two of
\* __init__'s signature, and exporter=, which the package docstring and
\* exporter.py document
HandlerKeywords == {"capacity", "dump_stream", "exporter"}

\* def __init__(self, capacity: int = 200, dump_stream=None)
init_accepts(keyword) == keyword \in {"capacity", "dump_stream"}

\* TraceLogHandler(keyword=...): a keyword __init__ does not declare raises
\* TypeError and no handler is made; a handler that is made writes its dumps
\* with print(..., file=self._dump_stream) and calls no exporter
NewHandler(keyword) ==
    /\ last' = [op |-> "new_handler", ctx |-> "main", keyword |-> keyword,
                outcome |-> IF init_accepts(keyword) THEN "ok" ELSE "TypeError",
                sink |-> IF init_accepts(keyword) THEN "dump_stream" ELSE "none"]
    /\ UNCHANGED <<heap, buffer_var, depth_var, trace_id_var, started, frames, stream,
                   clock, pushed, entries_local, files, lock>>

----------------------------------------------------------------------------
(* instrument.py: the wrapper of @trace *)

\* how a wrapped call ends: the callable returns (and repr(result) works or
\* raises), raises an Exception (and str(exc) works or raises), or raises a
\* BaseException that is no Exception (KeyboardInterrupt, SystemExit)
Exits == {"return", "return_bad_repr", "raise", "raise_bad_str", "raise_base"}

wrapper_dumps_error_line(st, entries, level) ==
    IF level >= ERROR THEN Append(st, entries) ELSE st

\* the wrapper's buf.push(LogEntry(..., level=...)): the entry is stored with
\* its level and that is all; the wrapper calls neither flash() nor _dump, so
\* the stream st is as before whatever the level. entries: the buffer's
\* contents after the push
wrapper_stream_after(st, entries, level) == st

\* wrapper, up to the call of func: buf = get_buffer(); depth = _ctx.get_depth();
\* the `>>` line is pushed at that depth; then _ctx.increase_depth().
\* binds: inspect.signature(func).bind(...) succeeds (else arg_str = "...")
TraceCall(c, binds) ==
    /\ clock < MaxPush
    /\ depth_var[c] < MaxDepth
    /\ LET g == get_buffer(c, DefaultCapacity)
           depth == get_depth(depth_var, "instrument._ctx", c)
           arg_str == IF binds THEN "a=1" ELSE "..."
           e == LogEntry(clock + 1, Line(depth, ">>", "f(" \o arg_str \o ")"), DEBUG, c)
       IN /\ buffer_var' = g.var
          /\ heap' = push(g.heap, g.buf, e)
          /\ pushed' = [g.pushed EXCEPT ![g.buf] = Append(@, e)]
          /\ clock' = clock + 1
          /\ depth_var' = increase_depth(depth_var, c)
          /\ frames' = [frames EXCEPT ![c] = Append(@, [buf |-> g.buf, depth |-> depth])]
          /\ stream' = wrapper_stream_after(stream, list_of(push(g.heap, g.buf, e), g.buf), DEBUG)
          /\ last' = [op |-> "trace_call", ctx |-> c, buf |-> g.buf, ret |-> e,
                      binds |-> binds]
    /\ UNCHANGED <<trace_id_var, started, entries_local, files, lock>>

\* the depth after the wrapper's exit path `how`, from depth function dv
exit_depth(dv, c, how) ==
    CASE how = "return" -> decrease_depth(dv, c)
      [] how = "return_bad_repr" -> decrease_depth(decrease_depth(dv, c), c)
      [] how = "raise" -> decrease_depth(dv, c)
      [] how = "raise_bad_str" -> decrease_depth(dv, c)
      [] how = "raise_base" -> dv

\* whether the exit path pushes a line, and which
exit_pushes(how) == how \in {"return", "return_bad_repr", "raise"}

exit_line(depth, how) ==
    IF how = "return" THEN Line(depth, "<<", "repr") ELSE Line(depth, "!!", "Exc: msg")

exit_level(how) == IF how = "return" THEN DEBUG ELSE ERROR

\* what the wrapper's caller observes: the callable's value v (`return result`),
\* the callable's error e (the bare `raise`, or no handler at all for a
\* BaseException), or another error: the one repr(result) or str(exc) raised
\* inside the wrapper, which carries e only as its __context__
exit_observed(how) ==
    CASE how = "return" -> "returns v"
      [] how = "return_bad_repr" -> "raises other"
      [] how = "raise" -> "raises e"
      [] how = "raise_bad_str" -> "raises other"
      [] how = "raise_base" -> "raises e"

\* what the wrapped callable itself did
callable_raised(how) == how \in {"raise", "raise_bad_str", "raise_base"}

\* wrapper, from the return or raise of func to its own return or raise:
\*   return:          decrease_depth, push `<<` at the restored depth, return
\*   return_bad_repr: decrease_depth, the f-string raises inside the try block, so
\*                    the except branch runs: decrease_depth, push `!!`, raise
\*   raise:           decrease_depth, push `!!`, raise
\*   raise_bad_str:   decrease_depth, the f-string of the except branch raises
\*   raise_base:      `except Exception` does not match: nothing runs
TraceExit(c, how) ==
    /\ frames[c] # <<>>
    /\ exit_pushes(how) => clock < MaxPush
    /\ LET frame == frames[c][Len(frames[c])]
           dv == exit_depth(depth_var, c, how)
           e == LogEntry(clock + 1, exit_line(dv[c], how), exit_level(how), c)
       IN /\ depth_var' = dv
          /\ frames' = [frames EXCEPT ![c] = SubSeq(@, 1, Len(@) - 1)]
          /\ IF exit_pushes(how)
             THEN /\ heap' = push(heap, frame.buf, e)
                  /\ pushed' = PushedAfterPush(frame.buf, e)
                  /\ clock' = clock + 1
                  /\ stream' = wrapper_stream_after(stream, list_of(push(heap, frame.buf, e), frame.buf),
                                                    exit_level(how))
             ELSE UNCHANGED <<heap, pushed, clock, stream>>
          /\ last' = [op |-> "trace_exit", ctx |-> c, buf |-> frame.buf, how |-> how,
                      depth |-> frame.depth, observed |-> exit_observed(how),
                      pushes |-> exit_pushes(how), ret |-> e]
    /\ UNCHANGED <<buffer_var, trace_id_var, started, entries_local, files, lock>>

----------------------------------------------------------------------------
(* Execution contexts *)

SpawnFrame == UNCHANGED <<heap, frames, stream, clock, pushed, entries_local, files, lock>>

\* threading.Thread(target=worker).start(): the thread runs in a context of
\* its own, in which no ContextVar is set
StartThread(c) ==
    /\ c \notin started
    /\ started' = started \cup {c}
    /\ buffer_var' = [buffer_var EXCEPT ![c] = NoBuffer]
    /\ depth_var' = [depth_var EXCEPT ![c] = 0]
    /\ trace_id_var' = [trace_id_var EXCEPT ![c] = NoTraceId]
    /\ last' = [op |-> "start_thread", ctx |-> c]
    /\ SpawnFrame

\* an asyncio Task (or asyncio.to_thread) created by context p: it runs in a
\* copy of p's context, so each ContextVar starts with the value p has set
CreateTask(p, c) ==
    /\ p \in started
    /\ c \notin started
    /\ started' = started \cup {c}
    /\ buffer_var' = [buffer_var EXCEPT ![c] = buffer_var[p]]
    /\ depth_var' = [depth_var EXCEPT ![c] = depth_var[p]]
    /\ trace_id_var' = [trace_id_var EXCEPT ![c] = trace_id_var[p]]
    /\ last' = [op |-> "create_task", ctx |-> c, parent |-> p]
    /\ SpawnFrame

----------------------------------------------------------------------------
(* Spec: one execution context (the main thread) logs through the handler,  *)
(* calls wrapped functions, which log and call wrapped functions, and calls *)
(* get_buffer                                                               *)

Init ==
    /\ InitCommon
    /\ heap = <<>>
    /\ pushed = <<>>

Next ==
    \/ \E levelno \in RecordLevels, renders, streamOk \in BOOLEAN :
          Emit("main", levelno, FALSE, renders, streamOk)
    \/ \E binds \in BOOLEAN : TraceCall("main", binds)
    \/ \E how \in Exits : TraceExit("main", how)
    \/ \E capacity \in {DefaultCapacity, HandlerCapacity} : GetBuffer("main", capacity)

Spec == Init /\ [][Next]_vars

C7_SameInstanceWithinContext ==
    [][\A c \in Contexts :
         buffer_var[c] # NoBuffer =>
           /\ buffer_var'[c] = buffer_var[c]
           /\ heap'[buffer_var[c]].maxlen = heap[buffer_var[c]].maxlen
           /\ (last'.ctx = c /\ last'.op \in {"get_buffer", "emit", "trace_call"}
                 => last'.buf = buffer_var[c])]_vars

C7_Witness ==
    /\ last.op = "get_buffer"
    /\ last.capacity # heap[last.ret].maxlen
    /\ heap[last.ret].q # <<>>
    /\ buffer_var[last.ctx] = last.ret

\* C10: on every exit path of a wrapped call (normal return or any raised
\* error) the context's depth after the call equals the depth before it.
C10_WrapperDepthNeutral ==
    last.op = "trace_exit" => depth_var[last.ctx] = last.depth

\* C11: if the wrapped callable raises error e, the wrapper's caller observes
\* that same error e, and an error line `!! TypeName: message` of level ERROR
\* has been pushed into the buffer before; the wrapper never swallows, wraps
\* or replaces e.
C11_ReraisesSameErrorAfterErrorLine ==
    (last.op = "trace_exit" /\ callable_raised(last.how)) =>
        /\ last.observed = "raises e"
        /\ last.pushes
        /\ last.ret.dsl_line.prefix = "!!"
        /\ last.ret.level = ERROR
        /\ last.ret.timestamp = clock

\* C12: if the wrapped callable returns v, the wrapper pushes the return line
\* `<< repr(v)` and returns v to its caller without raising, for every v.
C12_ReturnsValueAfterReturnLine ==
    (last.op = "trace_exit" /\ ~callable_raised(last.how)) =>
        /\ last.observed = "returns v"
        /\ last.pushes
        /\ last.ret.dsl_line.prefix = "<<"
        /\ last.ret.level = DEBUG

C15_EmitFailureGoesToHandleError ==
    last.op = "emit" =>
        /\ last.outcome \in {"ok", "handleError"}
        /\ (last.failure # "none" <=> last.outcome = "handleError")

C15_Witness ==
    /\ last.op = "emit"
    /\ last.failure = "dump"
    /\ last.outcome = "handleError"
    /\ clock > 1

\* C16: when writing a dump fails, the flashed entries are not put back and
\* nothing is retried: the buffer is empty after the failed dump, the sink
\* holds nothing of it, and a block written later holds only entries that were
\* in the buffer when its dump started (so none of the entries flashed before).
C16_FailedDumpLosesWindow ==
    [][/\ (last'.op = "emit" /\ last'.failure = "dump") =>
            /\ last'.flashed
            /\ heap'[last'.buf].q = <<>>
            /\ stream' = stream
       /\ stream' # stream =>
            LET b == last'.buf
                before == IF b \in DOMAIN heap THEN Range(heap[b].q) ELSE {}
                block == stream'[Len(stream')]
            IN \A i \in 1..Len(block) :
                  block[i] \in before \/ block[i].timestamp = clock']_vars

\* a dump that succeeds after one that failed: its block starts after the
\* entries the failed dump flashed
C16_Witness ==
    /\ last.op = "emit"
    /\ last.dumped
    /\ Len(stream) = 1
    /\ Len(stream[1]) = 2
    /\ stream[1][1].timestamp = 3
    /\ stream[1][1].level = INFO
    /\ heap[last.buf].maxlen > 2

\* C17: when a wrapped callable logs an event at ERROR and then raises, the one
\* dump that event triggers holds the decorator lines of the failing call, its
\* `!!` exception line included, in one block with the log lines, and the
\* buffer is empty afterwards. (Stated at the wrapper's exit that follows
\* the dumping emit inside the body: no second block, the exception line is
\* in the event's block, the buffer is empty.)
C17_DumpHoldsFailingCallsLines ==
    [][(/\ last.op = "emit" /\ last.levelno >= ERROR /\ last.dumped
        /\ frames[last.ctx] # <<>>
        /\ last'.op = "trace_exit" /\ last'.how = "raise" /\ last'.ctx = last.ctx) =>
          /\ stream' = stream
          /\ \E i \in 1..Len(stream'[Len(stream')]) :
                stream'[Len(stream')][i] = last'.ret
          /\ heap'[last'.buf].q = <<>>]_vars

Ascending(q) == \A i, j \in 1..Len(q) : i < j => q[i].timestamp < q[j].timestamp

\* C18: within one context the wrapper and the handler push into the same
\* buffer, and the buffer, hence every dump, lists their entries in the order
\* in which they were pushed.
C18_SameBufferPushOrder ==
    /\ \A c \in started :
          /\ \A i \in 1..Len(frames[c]) : frames[c][i].buf = buffer_var[c]
          /\ (last.ctx = c /\ last.op \in {"emit", "trace_call", "trace_exit"})
                => last.buf = buffer_var[c]
    /\ \A b \in DOMAIN heap :
          /\ heap[b].q = LastN(pushed[b], Min(Len(pushed[b]), heap[b].maxlen))
          /\ Ascending(heap[b].q)
    /\ \A k \in 1..Len(stream) : Ascending(stream[k])

C18_Witness ==
    /\ last.op = "trace_exit"
    /\ Len(heap[last.buf].q) = 3
    /\ heap[last.buf].q[1].dsl_line.prefix = ">>"
    /\ heap[last.buf].q[2].dsl_line.prefix = ".. [INFO]"
    /\ heap[last.buf].q[3].dsl_line.prefix = "<<"

\* C19: for every wrapped call the entry line is pushed at the depth current
\* before the increment and the return or error line after the decrement, so
\* a call's exit line has exactly the indentation of its entry line.
C19_ExitLineAlignsWithEntry ==
    /\ last.op = "trace_call" =>
          /\ last.ret.dsl_line.indent = frames[last.ctx][Len(frames[last.ctx])].depth
          /\ depth_var[last.ctx] = last.ret.dsl_line.indent + 1
    /\ (last.op = "trace_exit" /\ last.pushes) =>
          last.ret.dsl_line.indent = last.depth

\* C20: the entry line of a wrapped call made from the body of another wrapped
\* call is indented exactly one level (two spaces) more than the outer call's
\* entry line, and the line of a log event handled inside a wrapped body is
\* indented one level more than that call's entry line.
C20_NestedIndentation ==
    LET fs == frames[last.ctx] IN
    /\ (last.op = "trace_call" /\ Len(fs) >= 2) =>
          last.ret.dsl_line.indent = fs[Len(fs) - 1].depth + 1
    /\ (last.op = "emit" /\ last.failure # "format" /\ fs # <<>>) =>
          last.ret.dsl_line.indent = fs[Len(fs)].depth + 1

\* C28: a handler constructed with capacity c retains at most c entries per
\* context: in a context in which the handler handles events the buffer never
\* holds more than c entries, and no dump contains more than c entries.
C28_HandlerCapacityBoundsBuffer ==
    last.op = "emit" =>
        /\ Len(heap[last.buf].q) <= HandlerCapacity
        /\ \A k \in 1..Len(stream) : Len(stream[k]) <= HandlerCapacity

\* C29: when binding the arguments fails the wrapper pushes the entry line with
\* `...` for the argument list and still runs the callable; the call's result
\* or raised error is what it is without the wrapper.
C29_BindFailureKeepsCallIntact ==
    [][/\ (last'.op = "trace_call" /\ ~last'.binds) =>
            /\ last'.ret.dsl_line = Line(depth_var[last'.ctx], ">>", "f(...)")
            /\ Len(frames'[last'.ctx]) = Len(frames[last'.ctx]) + 1
       /\ (/\ last.op = "trace_call" /\ ~last.binds
           /\ last'.op = "trace_exit" /\ last'.ctx = last.ctx) =>
            last'.observed = IF callable_raised(last'.how) THEN "raises e" ELSE "returns v"]_vars

----------------------------------------------------------------------------
(* SpecFormat: records of every level, with and without exception           *)
(* information, are logged at every depth                                   *)

MaxFormatPush == 2

NextFormat ==
    \/ /\ clock < MaxFormatPush
       /\ \E levelno \in AllLevels, exc \in BOOLEAN : Emit("main", levelno, exc, TRUE, TRUE)
    \/ IncreaseDepth("instrument._ctx", "main")
    \/ DecreaseDepth("instrument._ctx", "main")

SpecFormat == Init /\ [][NextFormat]_vars

RECURSIVE Spaces(_)
Spaces(n) == IF n = 0 THEN "" ELSE " " \o Spaces(n - 1)

\* C21: for every severity and every depth d the line the handler pushes is
\* 2*d spaces, then `!!` at ERROR and above, `..` from WARNING up to ERROR,
\* `.. [LEVEL]` below WARNING, then a space and the message, with `TypeName: `
\* before the message when the record carries an exception; the entry's level
\* is the record's numeric level.
C21_HandlerLineFormat ==
    [][last'.op = "emit" =>
         LET d == depth_var[last'.ctx]
             sev == last'.levelno
             tag == IF sev >= ERROR THEN "!!"
                    ELSE IF sev >= WARNING THEN ".."
                    ELSE IF sev = INFO THEN ".. [INFO]" ELSE ".. [DEBUG]"
             body == IF last'.exc THEN "Exc: msg" ELSE "msg"
         IN /\ dsl_string(last'.ret.dsl_line) = Spaces(2 * d) \o tag \o " " \o body
            /\ last'.ret.level = sev
            /\ last'.ret.timestamp = clock']_vars

C21_Witness ==
    /\ last.op = "emit"
    /\ last.levelno = WARNING
    /\ last.exc
    /\ depth_var[last.ctx] = 2
    /\ dsl_string(last.ret.dsl_line) = "    .. Exc: msg"
    /\ heap[last.buf].q[Len(heap[last.buf].q)] = last.ret

----------------------------------------------------------------------------
(* SpecDump: the application constructs handlers and logs through the       *)
(* attached one in the main thread                                          *)

NextDump ==
    \/ \E keyword \in HandlerKeywords : NewHandler(keyword)
    \/ \E levelno \in RecordLevels, renders, streamOk \in BOOLEAN :
          Emit("main", levelno, FALSE, renders, streamOk)

SpecDump == Init /\ [][NextDump]_vars

\* C14: on every event at ERROR or above the dump flashes the buffer once and
\* hands the flashed entries, in order, to the configured sink exactly once;
\* a handler configured with a custom exporter, TraceLogHandler(exporter=...),
\* delivers its dumps to that exporter.
C14_DumpGoesToConfiguredSink ==
    [][/\ (last'.op = "emit" /\ last'.levelno >= ERROR /\ last'.failure = "none") =>
            LET b == last'.buf
                before == IF b \in DOMAIN heap THEN heap[b].q ELSE <<>>
                block == stream'[Len(stream')]
                n == Len(block)
            IN /\ last'.flashed
               /\ heap'[b].q = <<>>
               /\ Len(stream') = Len(stream) + 1
               /\ SubSeq(stream', 1, Len(stream)) = stream
               /\ n = Min(Len(before) + 1, heap'[b].maxlen)
               /\ SubSeq(block, 1, n - 1) = LastN(before, n - 1)
               /\ block[n].timestamp = clock'
       /\ (last'.op = "new_handler" /\ last'.keyword = "exporter") =>
            /\ last'.outcome = "ok"
            /\ last'.sink = "exporter"]_vars

----------------------------------------------------------------------------
(* SpecContexts: the main thread starts threads and tasks; every context    *)
(* uses ContextManager                                                      *)

NextContexts ==
    \/ \E c \in Contexts : StartThread(c)
    \/ \E p, c \in Contexts : CreateTask(p, c)
    \/ \E c \in started :
        \/ GetDepth("instrument._ctx", c)
        \/ IncreaseDepth("instrument._ctx", c)
        \/ DecreaseDepth("instrument._ctx", c)
        \/ GetTraceId("instrument._ctx", c)

SpecContexts == Init /\ [][NextContexts]_vars

\* C8: depth and trace id are per context: increase_depth, decrease_depth and
\* get_trace_id run in one thread or task never change the depth or the trace
\* id of another running thread or task, in every interleaving.
C8_DepthAndTraceIdPerContext ==
    [][\A c \in started :
         last'.ctx # c =>
           /\ depth_var'[c] = depth_var[c]
           /\ trace_id_var'[c] = trace_id_var[c]]_vars

C8_Witness ==
    /\ {"main", "t1"} \subseteq started
    /\ last.op = "increase_depth"
    /\ last.ctx = "t1"
    /\ depth_var["t1"] = 2
    /\ depth_var["main"] = 0
    /\ trace_id_var["main"] # NoTraceId
    /\ trace_id_var["t1"] # NoTraceId
    /\ trace_id_var["t1"] # trace_id_var["main"]

\* C22: in every context, after any sequence of increase_depth and
\* decrease_depth calls the depth is at least 0; decrease_depth at depth 0
\* leaves the depth at 0 and raises nothing.
C22_DepthNeverNegative ==
    [][/\ \A c \in Contexts : depth_var'[c] >= 0
       /\ (last'.op = "decrease_depth" /\ depth_var[last'.ctx] = 0) =>
            /\ depth_var'[last'.ctx] = 0
            /\ last'.ret = 0]_vars

C22_Witness ==
    /\ last.op = "decrease_depth"
    /\ last.ctx = "t1"
    /\ depth_var["t1"] = 0
    /\ depth_var["main"] = MaxDepth
    /\ last.ret = 0

\* C24: in every context the depth starts at 0: the first get_depth() in a
\* newly started thread or task returns 0, whatever the depth of any other
\* context at that moment.
C24_NewContextStartsAtDepthZero ==
    [][(/\ last.op \in {"start_thread", "create_task"}
        /\ last'.op = "get_depth"
        /\ last'.ctx = last.ctx) => last'.ret = 0]_vars

HexChars == {HexDigits[i] : i \in 1..16}

\* C25: once get_trace_id() has returned a value in a context, every later
\* get_trace_id() in that context returns the same value, whatever happens in
\* between; the value is a string of 8 hexadecimal characters.
C25_TraceIdStableHex8 ==
    [][/\ \A c \in started :
            trace_id_var[c] # NoTraceId =>
              /\ trace_id_var'[c] = trace_id_var[c]
              /\ (last'.op = "get_trace_id" /\ last'.ctx = c) => last'.ret = trace_id_var[c]
       /\ last'.op = "get_trace_id" =>
            /\ Len(last'.ret) = 8
            /\ \A i \in 1..Len(last'.ret) : last'.ret[i] \in HexChars
            /\ trace_id_var'[last'.ctx] = last'.ret]_vars

C25_Witness ==
    /\ last.op = "get_trace_id"
    /\ ~last.generated
    /\ last.ctx = "t1"
    /\ last.ret = trace_id_var["t1"]
    /\ trace_id_var["main"] # NoTraceId
    /\ trace_id_var["main"] # last.ret
    /\ depth_var["t1"] > 0

\* C26: get_trace_id() called in one context and get_trace_id() called in
\* another context (threads or tasks) return different values, identifier
\* generation being collision-free.
C26_TraceIdsDifferAcrossContexts ==
    [][(/\ last.op = "get_trace_id"
        /\ last'.op = "get_trace_id"
        /\ last'.ctx # last.ctx) => last'.ret # last.ret]_vars

----------------------------------------------------------------------------
(* SpecAccessors: one context uses ContextManager through two instances     *)

NextAccessors ==
    \E inst \in Instances :
        \/ GetDepth(inst, "main")
        \/ IncreaseDepth(inst, "main")
        \/ DecreaseDepth(inst, "main")
        \/ \E k \in 0..MaxRoundTrip : DepthRoundTrip(inst, "main", k)
        \/ GetTraceId(inst, "main")

SpecAccessors == Init /\ [][NextAccessors]_vars

\* C23: from any depth d, k increase_depth calls followed by k decrease_depth
\* calls leave the depth exactly d, for every k >= 0.
C23_DepthRoundTrip ==
    last.op = "depth_round_trip" =>
        /\ depth_var[last.ctx] = last.before
        /\ last.ret = last.before

C23_Witness ==
    /\ last.op = "depth_round_trip"
    /\ last.k = MaxRoundTrip
    /\ last.before = 0
    /\ depth_var[last.ctx] = 0

\* C27: any two ContextManager instances used in the same context read and
\* write the same depth and trace id: what one instance wrote or returned is
\* what the next read through the other instance returns.
C27_InstancesShareState ==
    [][(/\ last.op \in {"increase_depth", "decrease_depth", "depth_round_trip",
                         "get_depth", "get_trace_id"}
        /\ last'.ctx = last.ctx
        /\ last'.inst # last.inst) =>
          /\ (last'.op = "get_depth" /\ last.op # "get_trace_id") => last'.ret = last.ret
          /\ (last'.op = "get_trace_id" /\ last.op = "get_trace_id") => last'.ret = last.ret
          /\ (last'.op = "decrease_depth" /\ last.op = "increase_depth") =>
                last'.ret = last.ret - 1]_vars

C27_Witness ==
    /\ last.op = "get_depth"
    /\ last.inst = "handler._ctx"
    /\ last.ret = MaxDepth
    /\ trace_id_var[last.ctx] # NoTraceId

----------------------------------------------------------------------------
(* SpecIsolation: the main thread starts threads and tasks; every context   *)
(* logs through the one handler, calls get_buffer and changes its depth     *)

\* LogEntry objects created in one behaviour of SpecIsolation
MaxIsolationPush == 2

\* the contexts of SpecIsolation: the main thread and one context it starts
Running == {"main", "t1"}

NextIsolation ==
    \/ \E c \in Running : StartThread(c)
    \/ \E p, c \in Running : CreateTask(p, c)
    \/ \E c \in started :
        \/ \E levelno \in {INFO, ERROR} :
              clock < MaxIsolationPush /\ Emit(c, levelno, FALSE, TRUE, TRUE)
        \/ GetBuffer(c, DefaultCapacity)
        \/ IncreaseDepth("instrument._ctx", c)
        \/ DecreaseDepth("instrument._ctx", c)

SpecIsolation == Init /\ [][NextIsolation]_vars

\* C6: two different contexts (threads or asyncio tasks) never obtain the
\* same RingBuffer from get_buffer, and an entry pushed in one context never
\* appears in the buffer of another: the buffer get_buffer returns to a
\* context is one that context's own call created (which returned it there),
\* and it holds only entries pushed in that context.
C6_ContextsNeverShareBuffer ==
    last.op = "get_buffer" =>
      /\ heap[last.ret].by = last.ctx
      /\ \A e \in Range(heap[last.ret].q) : e.by = last.ctx

\* the entries pushed in context c that the buffer bound in c holds
Held(h, c) ==
    IF buffer_var[c] = NoBuffer THEN <<>>
    ELSE SelectSeq(h[buffer_var[c]].q, LAMBDA e : e.by = c)

\* C9: an error-level event handled in context B dumps only entries pushed
\* in B, and leaves the entries held for every other context A, and A's
\* depth, as they were.
C9_DumpOnlyOwnContext ==
    [][(last'.op = "emit" /\ last'.dumped) =>
         LET B == last'.ctx
             block == stream'[Len(stream')]
         IN /\ \A e \in Range(block) : e.by = B
            /\ \A A \in started \ {B} :
                 /\ depth_var'[A] = depth_var[A]
                 /\ Held(heap', A) = Held(heap, A)]_vars

----------------------------------------------------------------------------
(* Spec, continued: the wrapper's depth and line accounting *)

\* C33: at every point of an execution, the depth of a context equals the
\* number of @trace-wrapped calls that are currently active (entered and not
\* yet exited) in that context; it is 0 exactly when no wrapped call is
\* active.
C33_DepthCountsActiveCalls ==
    depth_var["main"] = Len(frames["main"])

\* C38: every invocation of a wrapped callable that completes pushes exactly
\* one entry line before the body runs and exactly one exit line (`<<` or
\* `!!`) after it, whatever kind of error the body raises: the step that ends
\* a wrapped call creates one entry, an exit line, and leaves it as the
\* newest entry of the call's buffer.
C38_OneExitLinePerCall ==
    [][last'.op = "trace_exit" =>
         /\ clock' = clock + 1
         /\ last'.ret.dsl_line.prefix \in {"<<", "!!"}
         /\ heap'[last'.buf].q # <<>>
         /\ heap'[last'.buf].q[Len(heap'[last'.buf].q)] = last'.ret]_vars

\* the contents of buffer b in heap h; a buffer not yet created holds nothing
ContentsOf(h, b) == IF b \in 1..Len(h) THEN h[b].q ELSE <<>>

\* C34: the wrapper itself never triggers a dump: after a wrapped call returns
\* or raises in a context where no error-level log event was handled, the
\* wrapper's lines (including a `!!` line stored with ERROR level) are still in
\* the context's buffer and nothing has been written to the sink. Every step
\* that writes to the stream is an emit of an event at ERROR or above; a
\* wrapper step that pushes a line leaves the stream as it was and the line as
\* the newest entry of the buffer, behind the entries the buffer held (less
\* the oldest, when the buffer was full).
C34_WrapperNeverDumps ==
    [][/\ stream' # stream => (last'.op = "emit" /\ last'.levelno >= ERROR)
       /\ (\/ last'.op = "trace_call"
           \/ last'.op = "trace_exit" /\ last'.pushes) =>
            LET b == last'.buf
                before == ContentsOf(heap, b)
                after == ContentsOf(heap', b)
            IN /\ stream' = stream
               /\ after # <<>>
               /\ after[Len(after)] = last'.ret
               /\ last'.ret.dsl_line.prefix = "!!" => last'.ret.level = ERROR
               /\ SubSeq(after, 1, Len(after) - 1) = LastN(before, Len(after) - 1)]_vars

\* a wrapped call has raised, its `!!` line is held at ERROR level and the
\* stream is still empty
C34_Witness ==
    /\ last.op = "trace_exit"
    /\ last.how = "raise"
    /\ stream = <<>>
    /\ Len(heap[last.buf].q) >= 2
    /\ heap[last.buf].q[Len(heap[last.buf].q)].level = ERROR
    /\ heap[last.buf].q[Len(heap[last.buf].q)].dsl_line.prefix = "!!"

\* C40: if rendering the event's line fails inside emit, no entry is pushed
\* and no dump is triggered, even for an error-level event: the context's
\* buffer contents and depth are exactly as before the call.
C40_RenderFailureChangesNothing ==
    [][(last'.op = "emit" /\ ~last'.renders) =>
         /\ ContentsOf(heap', last'.buf) = ContentsOf(heap, last'.buf)
         /\ \A b \in 1..Len(heap) : heap'[b] = heap[b]
         /\ clock' = clock
         /\ stream' = stream
         /\ depth_var' = depth_var]_vars

\* an error-level event whose message does not render was handled while the
\* buffer held entries: they are all still there
C40_Witness ==
    /\ last.op = "emit"
    /\ ~last.renders
    /\ last.levelno >= ERROR
    /\ heap[last.buf].q # <<>>
    /\ depth_var[last.ctx] > 0

----------------------------------------------------------------------------
(* SpecTwoHandlers: one context logs on a logger that has a TraceLogHandler *)
(* of its own and an ancestor with another one                              *)

\* Logger.callHandlers: the record goes to the handlers of the logger and then
\* to those of its ancestors. EmitAncestor is the emit of the ancestor's
\* TraceLogHandler for the record the logger's own handler has just handled;
\* both handlers reach the context's buffer through the module's get_buffer()
EmitAncestor(c, streamOk) ==
    /\ last.op = "emit"
    /\ last.handler = "h1"
    /\ last.ctx = c
    /\ HandlerEmit("h2", c, last.levelno, last.exc, last.renders, streamOk)

\* the record handled last has been to every handler it goes to
Delivered == ~(last.op = "emit" /\ last.handler = "h1")

NextTwoHandlers ==
    \/ /\ Delivered
       /\ \E levelno \in RecordLevels, exc, renders, streamOk \in BOOLEAN :
            Emit("main", levelno, exc, renders, streamOk)
    \/ \E streamOk \in BOOLEAN : EmitAncestor("main", streamOk)

SpecTwoHandlers == Init /\ [][NextTwoHandlers]_vars

\* C39: each log event adds exactly one entry to the context's buffer and an
\* error-level event causes exactly one dump, also when the same event is
\* delivered to two TraceLogHandler instances in the same context (one
\* attached to a logger and one to its ancestor): the second handler's emit of
\* an event creates no further entry and writes no further dump.
C39_OneEntryPerEventWithTwoHandlers ==
    [][(last'.op = "emit" /\ last'.handler = "h2") =>
         /\ clock' = clock
         /\ heap' = heap
         /\ stream' = stream]_vars

----------------------------------------------------------------------------
(* SpecCopy: RingBuffer(capacity=c); the caller keeps the list a flash() or *)
(* snapshot() returned in a variable, changes it, and goes on calling the   *)
(* buffer's methods. A list object is <<"list", elements>>: storage of its  *)
(* own; <<"deque", b>> stands for an object that shares buffer b's storage. *)

MaxListLen == 3

the_deque_itself(h, b) == <<"deque", b>>

\* list(self._buffer), as an object: a new list holding the deque's elements
new_list(h, b) == <<"list", list_of(h, b)>>

\* the elements object o holds, in heap h
elements(h, o) == IF o[1] = "deque" THEN h[o[2]].q ELSE o[2]

\* object o with elements s, and the heap then
with_elements(o, s) == IF o[1] = "deque" THEN o ELSE <<"list", s>>

heap_with_elements(h, o, s) == IF o[1] = "deque" THEN [h EXCEPT ![o[2]].q = s] ELSE h

\* lst = buf.snapshot() in context c
SnapshotInto(c, b) ==
    /\ entries_local' = [entries_local EXCEPT ![c] = new_list(heap, b)]
    /\ last' = [op |-> "snapshot", ctx |-> c, buf |-> b, ret |-> list_of(heap, b)]
    /\ UNCHANGED <<heap, pushed, clock>>
    /\ SharedFrame

\* lst = buf.flash() in context c: entries = list(self._buffer);
\* self._buffer.clear(); return entries
FlashInto(c, b) ==
    /\ entries_local' = [entries_local EXCEPT ![c] = new_list(heap, b)]
    /\ heap' = clear(heap, b)
    /\ pushed' = [pushed EXCEPT ![b] = <<>>]
    /\ last' = [op |-> "flash", ctx |-> c, buf |-> b, ret |-> list_of(heap, b)]
    /\ clock' = clock
    /\ SharedFrame

\* lst.append(x) on the list context c keeps
ListAppend(c) ==
    /\ entries_local[c] # Idle
    /\ Len(elements(heap, entries_local[c])) < MaxListLen
    /\ LET o == entries_local[c]
           s == Append(elements(heap, o), LogEntry(0, Line(0, "", "x"), NOTSET, c))
       IN /\ entries_local' = [entries_local EXCEPT ![c] = with_elements(o, s)]
          /\ heap' = heap_with_elements(heap, o, s)
    /\ last' = [op |-> "list_append", ctx |-> c]
    /\ UNCHANGED <<pushed, clock>>
    /\ SharedFrame

\* lst.pop() on the list context c keeps
ListPop(c) ==
    /\ entries_local[c] # Idle
    /\ elements(heap, entries_local[c]) # <<>>
    /\ LET o == entries_local[c]
           s == SubSeq(elements(heap, o), 1, Len(elements(heap, o)) - 1)
       IN /\ entries_local' = [entries_local EXCEPT ![c] = with_elements(o, s)]
          /\ heap' = heap_with_elements(heap, o, s)
    /\ last' = [op |-> "list_pop", ctx |-> c]
    /\ UNCHANGED <<pushed, clock>>
    /\ SharedFrame

NextCopy ==
    \/ \E level \in {NOTSET, DEBUG} : Push("main", 1, level)
    \/ Flash("main", 1)
    \/ Clear("main", 1)
    \/ SnapshotInto("main", 1)
    \/ FlashInto("main", 1)
    \/ ListAppend("main")
    \/ ListPop("main")

SpecCopy == InitBuffer /\ [][NextCopy]_vars

\* C36: a list returned by flash() or snapshot() is an independent copy: later
\* push, clear or flash calls on the buffer never change that list, and
\* adding or removing elements of the list never changes the buffer.
C36_ReturnedListIndependent ==
    [][entries_local["main"] # Idle =>
         /\ (last'.op \in {"push", "clear", "flash"} /\ entries_local' = entries_local) =>
              elements(heap', entries_local'["main"]) = elements(heap, entries_local["main"])
         /\ last'.op \in {"list_append", "list_pop"} =>
              /\ heap' = heap
              /\ elements(heap', entries_local'["main"]) # elements(heap, entries_local["main"])]_vars

\* the caller holds a snapshot of two entries while the buffer, pushed to
\* since, has evicted the first of them
C36_Witness ==
    /\ last.op = "push"
    /\ entries_local["main"] # Idle
    /\ Len(elements(heap, entries_local["main"])) = 2
    /\ heap[1].maxlen = 2
    /\ elements(heap, entries_local["main"])[2] = heap[1].q[1]

----------------------------------------------------------------------------
(* SpecFates: one context logs through one handler and clears its buffer *)

NextFates ==
    \/ \E levelno \in RecordLevels, renders, streamOk \in BOOLEAN :
          Emit("main", levelno, FALSE, renders, streamOk)
    \/ /\ buffer_var["main"] # NoBuffer
       /\ Clear("main", buffer_var["main"])

SpecFates == Init /\ [][NextFates]_vars

\* the number of places entry e has in the blocks of stream st
InBlocks(st, e) ==
    Cardinality(UNION {{<<i, j>> : j \in {k \in 1..Len(st[i]) : st[i][k] = e}} :
                       i \in 1..Len(st)})

B2N(x) == IF x THEN 1 ELSE 0

\* the entries alive in a step: those buffer b held before it and the one the
\* step created
Live(b) ==
    Range(ContentsOf(heap, b)) \cup (IF clock' > clock THEN {last'.ret} ELSE {})

\* entry e is held in buffer b after the step
HeldAfter(b, e) == e \in Range(ContentsOf(heap', b))

\* entry e was the oldest of a full buffer b and the step pushed
EvictedBy(b, e) ==
    /\ clock' > clock
    /\ Len(ContentsOf(heap, b)) = heap'[b].maxlen
    /\ e = ContentsOf(heap, b)[1]

\* the step was a clear() and e was held
ClearedBy(b, e) == last'.op = "clear" /\ e \in Range(ContentsOf(heap, b))

\* e is in exactly one place of the blocks written so far
DeliveredOnce(e) == InBlocks(stream', e) = 1

\* e was flashed by a dump of this step whose write failed
LostBy(b, e) ==
    /\ last'.op = "emit"
    /\ last'.flashed
    /\ ~last'.dumped
    /\ ~EvictedBy(b, e)

\* what holds of every step besides the fate of the live entries: what the
\* buffer holds was alive, once; the blocks written stay; no entry has two
\* places in the blocks; a new block holds only entries pushed since the
\* buffer was last emptied, so none pushed before the previous dump
FatesFrame(b) ==
    /\ Range(ContentsOf(heap', b)) \subseteq Live(b)
    /\ \A i, j \in 1..Len(ContentsOf(heap', b)) :
         i # j => ContentsOf(heap', b)[i] # ContentsOf(heap', b)[j]
    /\ Len(stream') >= Len(stream)
    /\ SubSeq(stream', 1, Len(stream)) = stream
    /\ \A i \in 1..Len(stream') : \A e \in Range(stream'[i]) : InBlocks(stream', e) = 1
    /\ \A i \in (Len(stream) + 1)..Len(stream') : \A e \in Range(stream'[i]) :
         /\ e \in Live(b)
         /\ e \in Range(IF b \in 1..Len(pushed) THEN pushed[b] ELSE <<>>) \cup {last'.ret}
         /\ \A k \in 1..Len(stream) : \A d \in Range(stream[k]) : d.timestamp < e.timestamp

\* C37, as stated: in one context with one handler, every pushed entry is at
\* any time in exactly one of these states: held in the buffer, evicted by
\* overflow, discarded by clear, or delivered in exactly one dump; no entry
\* appears in two dumps or twice in one dump, and a dump never contains an
\* entry pushed before the previous dump of that context. (Step by step:
\* every live entry is in exactly one of the four states after the step.)
C37_FourFates ==
    [][buffer_var'["main"] # NoBuffer =>
         LET b == buffer_var'["main"] IN
           /\ FatesFrame(b)
           /\ \A e \in Live(b) :
                B2N(HeldAfter(b, e)) + B2N(EvictedBy(b, e)) + B2N(ClearedBy(b, e))
                  + B2N(DeliveredOnce(e)) = 1]_vars

\* C37, amended: every pushed entry is at any time in exactly one of five
\* states: held in the buffer, evicted by overflow, discarded by clear,
\* delivered in exactly one dump, or flashed by a dump whose write failed
\* (lost); no entry appears in two dumps or twice in one dump, and a dump
\* never contains an entry pushed before the previous dump of that context.
C37_FiveFates ==
    [][buffer_var'["main"] # NoBuffer =>
         LET b == buffer_var'["main"] IN
           /\ FatesFrame(b)
           /\ \A e \in Live(b) :
                B2N(HeldAfter(b, e)) + B2N(EvictedBy(b, e)) + B2N(ClearedBy(b, e))
                  + B2N(DeliveredOnce(e)) + B2N(LostBy(b, e)) = 1]_vars

\* a second dump has been written: its block holds two entries, both newer
\* than every entry of the first block, and the buffer is empty
C37_Witness ==
    /\ last.op = "emit"
    /\ last.dumped
    /\ Len(stream) = 2
    /\ Len(stream[2]) = 2
    /\ stream[1][Len(stream[1])].timestamp < stream[2][1].timestamp
    /\ heap[last.buf].q = <<>>

----------------------------------------------------------------------------
(* exporter.py: StreamExporter and FileExporter. SpecExport: the application *)
(* constructs FileExporters for one path and calls export on them and on a  *)
(* StreamExporter. A file is the sequence of the lines written to it; its   *)
(* size is counted in lines.                                                *)

MaxExport == 3
MaxStreamExport == 1
MaxBytes == 4

ExportFrame == UNCHANGED <<heap, buffer_var, depth_var, trace_id_var, started, frames,
                           pushed, entries_local, lock>>

\* the lists of entries handed to export
Batches ==
    {<<>>,
     <<LogEntry(1, Line(0, "!!", "boom"), ERROR, "main")>>,
     <<LogEntry(1, Line(0, "..", "[INFO] a"), INFO, "main"),
       LogEntry(2, Line(0, "!!", "boom"), ERROR, "main")>>}

\* StreamExporter.export(entries): three print(..., file=stream) statements and
\* no try/except around them; a stream that refuses the write raises to the
\* caller
StreamExport(entries, streamOk) ==
    /\ Len(stream) < MaxStreamExport
    /\ stream' = _dump_stream_after(entries, streamOk)
    /\ last' = [op |-> "stream_export", ctx |-> "main", entries |-> entries,
                outcome |-> IF streamOk THEN "ok" ELSE "raises"]
    /\ UNCHANGED <<clock, files>>
    /\ ExportFrame

\* FileExporter(path, max_bytes=...): max_bytes < 0 raises ValueError
NewFileExporter(max_bytes) ==
    /\ files' = IF max_bytes < 0 THEN files
                ELSE [files EXCEPT !.made = TRUE, !.max_bytes = max_bytes]
    /\ last' = [op |-> "new_file_exporter", ctx |-> "main", max_bytes |-> max_bytes,
                outcome |-> IF max_bytes < 0 THEN "ValueError" ELSE "ok"]
    /\ UNCHANGED <<clock, stream>>
    /\ ExportFrame

\* os.path.getsize(self._path)
getsize(f) == Len(f.lines)

rotates_when_exceeded(max_bytes, size) == size > max_bytes

\* _rotate_if_needed: os.path.getsize(self._path) >= self._max_bytes
reaches_limit(max_bytes, size) == size >= max_bytes

\* _rotate_if_needed on files fs: os.replace(path, path + ".bak") when the
\* size has reached the limit; a missing file (FileNotFoundError) is passed
\* over
_rotate_if_needed(fs) ==
    IF fs.log.exists /\ reaches_limit(fs.max_bytes, getsize(fs.log))
    THEN [fs EXCEPT !.bak = fs.log, !.log = NoFile]
    ELSE fs

\* the lines of one dump written at time ts
dump_block(ts, entries) ==
    <<[kind |-> "header", timestamp |-> ts]>>
      \o [i \in 1..Len(entries) |-> [kind |-> "line", dsl_line |-> entries[i].dsl_line]]
      \o <<[kind |-> "footer"]>>

\* with open(self._path, "a") as f: f.write(...)
append_block(fs, block) ==
    [fs EXCEPT !.log = [exists |-> TRUE, lines |-> fs.log.lines \o block]]

\* the calls of export that can raise an OSError, in the order export makes them
Failures == {"none", "makedirs", "getsize", "replace", "open"}

\* whether export on files fs makes the call that `fail` names
reached(fs, fail) ==
    CASE fail = "getsize" -> fs.max_bytes > 0
      [] fail = "replace" -> /\ fs.max_bytes > 0
                             /\ fs.log.exists
                             /\ reaches_limit(fs.max_bytes, getsize(fs.log))
      [] OTHER -> TRUE

\* FileExporter.export(entries): _ensure_dir(); if max_bytes > 0:
\* _rotate_if_needed(); the block is appended. Only FileNotFoundError is caught
\* (in _rotate_if_needed): any other error of a call raises to the caller, and
\* what the earlier calls did stays done
FileExport(entries, fail) ==
    /\ files.made
    /\ clock < MaxExport
    /\ reached(files, fail)
    /\ LET fs1 == IF files.max_bytes > 0 /\ fail \notin {"makedirs", "getsize", "replace"}
                  THEN _rotate_if_needed(files) ELSE files
           block == dump_block(clock + 1, entries)
           fs2 == IF fail = "none" THEN append_block(fs1, block) ELSE fs1
       IN /\ files' = fs2
          /\ clock' = clock + 1
          /\ last' = [op |-> "file_export", ctx |-> "main", fail |-> fail,
                      outcome |-> IF fail = "none" THEN "ok" ELSE "raises",
                      block |-> block]
    /\ UNCHANGED stream
    /\ ExportFrame

NextExport ==
    \/ \E entries \in Batches, streamOk \in BOOLEAN : StreamExport(entries, streamOk)
    \/ \E max_bytes \in -1..MaxBytes : NewFileExporter(max_bytes)
    \/ \E entries \in Batches, fail \in Failures : FileExport(entries, fail)

SpecExport == Init /\ [][NextExport]_vars

\* C31: export(entries) of the reference sinks (StreamExporter, FileExporter)
\* never raises to its caller: when the stream write, the directory creation,
\* the rotation or the file append fails, export still returns normally.
C31_ExportNeverRaises ==
    last.op \in {"stream_export", "file_export"} => last.outcome = "ok"

----------------------------------------------------------------------------
(* SpecLock: threads t1 and t2 log through one TraceLogHandler attached to  *)
(* a logger. logging.Handler.handle wraps emit in acquire()/release() of    *)
(* the handler's lock; inside emit, _dump writes its block with one print   *)
(* per line, and a thread switch can fall between any two of them. The      *)
(* stream is kept line by line here: <<[kind, by]>>.                        *)

MaxLockPush == 3

acquire_without_lock(l, t) == TRUE

\* Handler.acquire() by thread t: returns once no other thread holds the lock
can_acquire(l, t) == l = NoHolder

LockFrame == UNCHANGED <<depth_var, trace_id_var, started, frames, files>>

\* handler.handle(record) of an event below ERROR in thread t: acquire, emit
\* (the line is pushed), release
HandleInfo(t) ==
    /\ t \in started
    /\ entries_local[t] = Idle
    /\ can_acquire(lock, t)
    /\ Emit(t, INFO, FALSE, TRUE, TRUE)

\* handler.handle(record) of an event at ERROR in thread t, up to _dump's
\* first print: acquire; emit pushes the line; _dump flashes the buffer and
\* prints the DUMP START line
HandleError(t) ==
    /\ t \in started
    /\ entries_local[t] = Idle
    /\ can_acquire(lock, t)
    /\ clock < MaxLockPush
    /\ LET g == get_buffer(t, HandlerCapacity)
           e == LogEntry(clock + 1, _to_dsl(get_depth(depth_var, "handler._ctx", t), ERROR, FALSE),
                         ERROR, t)
           h1 == push(g.heap, g.buf, e)
       IN /\ buffer_var' = g.var
          /\ heap' = _dump_heap_after(h1, g.buf, TRUE)
          /\ pushed' = [g.pushed EXCEPT ![g.buf] = <<>>]
          /\ clock' = clock + 1
          /\ entries_local' = [entries_local EXCEPT ![t] = <<"dump", list_of(h1, g.buf)>>]
          /\ stream' = Append(stream, [kind |-> "start", by |-> t])
          /\ last' = [op |-> "dump_start", ctx |-> t, buf |-> g.buf, ret |-> e]
    /\ lock' = t
    /\ LockFrame

\* _dump's loop in thread t: print(entry.dsl_line, file=stream) of the next entry
PrintLine(t) ==
    /\ entries_local[t] # Idle
    /\ entries_local[t][2] # <<>>
    /\ stream' = Append(stream, [kind |-> "line", by |-> t,
                                 dsl_line |-> Head(entries_local[t][2]).dsl_line])
    /\ entries_local' = [entries_local EXCEPT ![t] = <<"dump", Tail(@[2])>>]
    /\ last' = [op |-> "print", ctx |-> t]
    /\ UNCHANGED <<heap, buffer_var, pushed, clock, lock>>
    /\ LockFrame

\* _dump's last print in thread t, the DUMP END line; emit returns and
\* handle releases the lock
PrintEnd(t) ==
    /\ entries_local[t] # Idle
    /\ entries_local[t][2] = <<>>
    /\ stream' = Append(stream, [kind |-> "end", by |-> t])
    /\ entries_local' = [entries_local EXCEPT ![t] = Idle]
    /\ lock' = NoHolder
    /\ last' = [op |-> "dump_end", ctx |-> t]
    /\ UNCHANGED <<heap, buffer_var, pushed, clock>>
    /\ LockFrame

NextLock ==
    \/ \E t \in Threads : StartThread(t)
    \/ \E t \in Threads : HandleInfo(t)
    \/ \E t \in Threads : HandleError(t)
    \/ \E t \in Threads : PrintLine(t)
    \/ \E t \in Threads : PrintEnd(t)

SpecLock == Init /\ [][NextLock]_vars

\* C35: when several threads emit error-level events through the same
\* TraceLogHandler via the logging framework, their emit() calls are
\* serialized by the handler lock, so the lines of one dump block (DUMP START
\* ... DUMP END) are never interleaved with the lines of another thread's
\* dump block on the stream: after a line that is not DUMP END comes a line
\* of the same thread's block, and after a DUMP END a DUMP START.
C35_DumpBlocksNotInterleaved ==
    /\ \A i \in 1..(Len(stream) - 1) :
         IF stream[i].kind = "end"
         THEN stream[i + 1].kind = "start"
         ELSE stream[i + 1].by = stream[i].by /\ stream[i + 1].kind # "start"
    /\ \A t, u \in Threads : (entries_local[t] # Idle /\ entries_local[u] # Idle) => t = u

\* both threads have written a whole dump block, the first of them with a
\* line before the error line, and the second thread was held back until
\* the first had finished
C35_Witness ==
    /\ Len(stream) = 7
    /\ stream[1].by # stream[7].by
    /\ stream[4].kind = "end"
    /\ stream[5].kind = "start"
    /\ stream[7].kind = "end"

====
